---------------------------- MODULE Spec2Model ----------------------------
(***************************************************************************)
(* GasGridBot (app.py): one Streamlit session of the dual-mode chat UI.    *)
(* A script run reads the mode radio and the chat input; a submitted query *)
(* runs the turn handler: retrieve_context (embedding call, vector search, *)
(* collection loop), the no-context guardrail, answer_with_context, the    *)
(* Sources expander, the except branch and the final save of the reply.    *)
(* Text is modelled as sequences of one-character strings, so that         *)
(* str.strip, str.join and the f-string prompt are computed, not assumed.  *)
(* The three remote services are the environment: each call either raises  *)
(* or returns a value drawn from a small set.                              *)
(***************************************************************************)
EXTENDS Integers, Sequences, FiniteSets, TLC

VARIABLES
    messages,       \* st.session_state.messages
    history,        \* st.session_state.history
    mode,           \* value of the sidebar radio in the current script run
    pc,             \* position of the script run inside the turn handler
    user_query,     \* value of st.chat_input in the current run (<<>> = None)
    results,        \* documents yielded by search_client.search
    context_text,   \* first component returned by retrieve_context
    sources,        \* second component returned by retrieve_context
    bot_reply,      \* the local bot_reply
    calls,          \* remote calls issued in the current run, with outcome
    requests,       \* arguments of the ChatCompletion.create calls of the run
    shown_sources,  \* bullets written inside the "Sources" expander
    failed,         \* the except branch ran (st.error was shown)
    before          \* st.session_state.messages when the run started

vars == << messages, history, mode, pc, user_query, results, context_text,
           sources, bot_reply, calls, requests, shown_sources, failed, before >>

-----------------------------------------------------------------------------
(* Bounds of the model *)

MaxTurns == 2

-----------------------------------------------------------------------------
(* Program constants *)

RAG_MODE == "GasGridBot (RAG Search)"

GENERAL_MODE == "General GPT-3.5 Chat"

Modes == { RAG_MODE, GENERAL_MODE }

TOP_K == 3

RAG_TEMPERATURE_TENTHS == 0

GENERAL_TEMPERATURE_TENTHS == 3

MAX_TOKENS == 600

GROUNDING_SYS_MSG ==
    << "Y", "o", "u", " ", "a", "r", "e", " ", "G", "a", "s", "G",
       "r", "i", "d", "B", "o", "t", ",", " ", "a", "n", " ", "a",
       "s", "s", "i", "s", "t", "a", "n", "t", " ", "t", "h", "a",
       "t", " ", "a", "n", "s", "w", "e", "r", "s", " ", "O", "N",
       "L", "Y", " ", "f", "r", "o", "m", " ", "t", "h", "e", " ",
       "p", "r", "o", "v", "i", "d", "e", "d", " ", "c", "o", "n",
       "t", "e", "x", "t", ".", " ", "I", "f", " ", "t", "h", "e",
       " ", "a", "n", "s", "w", "e", "r", " ", "i", "s", " ", "n",
       "o", "t", " ", "i", "n", " ", "t", "h", "e", " ", "c", "o",
       "n", "t", "e", "x", "t", ",", " ", "s", "a", "y", " ", "y",
       "o", "u", " ", "d", "o", "n", "'", "t", " ", "k", "n", "o",
       "w", "." >>

GENERAL_SYS_MSG ==
    << "Y", "o", "u", " ", "a", "r", "e", " ", "a", " ", "h", "e",
       "l", "p", "f", "u", "l", " ", "a", "s", "s", "i", "s", "t",
       "a", "n", "t", "." >>

FALLBACK_REPLY ==
    << "I", " ", "d", "o", "n", "'", "t", " ", "h", "a", "v", "e",
       " ", "r", "e", "l", "e", "v", "a", "n", "t", " ", "c", "o",
       "n", "t", "e", "x", "t", " ", "i", "n", " ", "t", "h", "e",
       " ", "i", "n", "d", "e", "x", "e", "d", " ", "d", "o", "c",
       "u", "m", "e", "n", "t", "s", " ", "t", "o", " ", "a", "n",
       "s", "w", "e", "r", " ", "t", "h", "i", "s", "." >>

ERROR_REPLY ==
    << "E", "r", "r", "o", "r", "." >>

CONTEXT_LABEL ==
    << "C", "o", "n", "t", "e", "x", "t", ":", "\n" >>

QUESTION_LABEL ==
    << "\n", "\n", "Q", "u", "e", "s", "t", "i", "o", "n", ":", " " >>

SEPARATOR ==
    << "\n", "\n" >>

-----------------------------------------------------------------------------
(* Values the environment can supply *)

Queries == { <<>>, << "q" >>, << " ", "p", "?" >> }

Replies == { << "r" >>, << "I", " ", "d", "o", "n", "'", "t", " ", "k", "n", "o", "w" >> }

Docs ==
    { [content |-> << "a" >>, source |-> << "s", "1" >>],
      [content |-> << "b", " " >>, source |-> << "s", "1" >>],
      [content |-> << "a" >>, source |-> << "s", "2" >>],
      [content |-> << " " >>, source |-> << "s", "2" >>],
      [content |-> << "\n" >>, source |-> << "s", "3" >>],
      [content |-> <<>>, source |-> << "s", "1" >>],
      [source |-> << "s", "3" >>],
      [content |-> << "a" >>] }

ResultLists == UNION { [1..n -> Docs] : n \in 0..TOP_K }

-----------------------------------------------------------------------------
(* Pure helpers *)

Whitespace == { " ", "\n", "\t", "\r" }

Truthy(s) == s # <<>>

Get(r, field, default) == IF field \in DOMAIN r THEN r[field] ELSE default

RECURSIVE LStrip(_)
LStrip(s) ==
    IF s # <<>> /\ Head(s) \in Whitespace THEN LStrip(Tail(s)) ELSE s

RECURSIVE RStrip(_)
RStrip(s) ==
    IF s # <<>> /\ s[Len(s)] \in Whitespace
    THEN RStrip(SubSeq(s, 1, Len(s) - 1))
    ELSE s

Strip(s) == RStrip(LStrip(s))

RECURSIVE Join(_, _)
Join(sep, parts) ==
    IF parts = <<>> THEN <<>>
    ELSE IF Len(parts) = 1 THEN parts[1]
    ELSE parts[1] \o sep \o Join(sep, Tail(parts))

RECURSIVE CollectLoopAlwaysSource(_, _, _)
CollectLoopAlwaysSource(rs, contexts, srcs) ==
    IF rs = <<>> THEN [contexts |-> contexts, sources |-> srcs]
    ELSE LET content == Get(Head(rs), "content", <<>>)
             source  == Get(Head(rs), "source", <<>>)
         IN  IF Truthy(content)
             THEN CollectLoopAlwaysSource(Tail(rs), Append(contexts, content), Append(srcs, source))
             ELSE CollectLoopAlwaysSource(Tail(rs), contexts, Append(srcs, source))

RECURSIVE CollectLoop(_, _, _)
CollectLoop(rs, contexts, srcs) ==
    IF rs = <<>> THEN [contexts |-> contexts, sources |-> srcs]
    ELSE LET content == Get(Head(rs), "content", <<>>)
             source  == Get(Head(rs), "source", <<>>)
         IN  IF Truthy(content)
             THEN CollectLoop(Tail(rs), Append(contexts, content), Append(srcs, source))
             ELSE CollectLoop(Tail(rs), contexts, srcs)

RetrieveReturn(rs) ==
    LET got == CollectLoop(rs, <<>>, <<>>)
    IN  [context_text |-> Join(SEPARATOR, got.contexts), sources |-> got.sources]

UserPromptNoBlankLine(c, q) ==
    CONTEXT_LABEL \o c \o << "\n" >> \o << "Q", "u", "e", "s", "t", "i", "o", "n", ":", " " >> \o q

UserPrompt(c, q) == CONTEXT_LABEL \o c \o QUESTION_LABEL \o q

GroundedRequest(q, c, temperature, max_tokens) ==
    [ messages    |-> << [role |-> "system", content |-> GROUNDING_SYS_MSG],
                         [role |-> "user", content |-> UserPrompt(c, q)] >>,
      temperature |-> temperature,
      max_tokens  |-> max_tokens ]

GeneralRequestZeroTemperature(q) ==
    [ messages    |-> << [role |-> "system", content |-> GENERAL_SYS_MSG],
                         [role |-> "user", content |-> q] >>,
      temperature |-> 0,
      max_tokens  |-> MAX_TOKENS ]

GeneralRequest(q) ==
    [ messages    |-> << [role |-> "system", content |-> GENERAL_SYS_MSG],
                         [role |-> "user", content |-> q] >>,
      temperature |-> GENERAL_TEMPERATURE_TENTHS,
      max_tokens  |-> MAX_TOKENS ]

-----------------------------------------------------------------------------
(* Initial state: a fresh session, before the first chat input *)

Init ==
    /\ messages = <<>>
    /\ history = <<>>
    /\ mode = RAG_MODE
    /\ pc = "idle"
    /\ user_query = <<>>
    /\ results = <<>>
    /\ context_text = <<>>
    /\ sources = <<>>
    /\ bot_reply = <<>>
    /\ calls = <<>>
    /\ requests = <<>>
    /\ shown_sources = <<>>
    /\ failed = FALSE
    /\ before = <<>>

-----------------------------------------------------------------------------
(* One script run up to the chat input: the radio is read, nothing of the  *)
(* earlier run's locals survives, and a non-empty query starts a turn.     *)

ChatInput ==
    /\ pc = "idle"
    /\ \E m \in Modes, q \in Queries :
        /\ Truthy(q) => Len(messages) < 2 * MaxTurns
        /\ mode' = m
        /\ user_query' = q
        /\ before' = messages
        /\ IF Truthy(q)
           THEN /\ messages' = Append(messages, [role |-> "user", content |-> q])
                /\ pc' = IF m = RAG_MODE THEN "embed" ELSE "general"
           ELSE /\ messages' = messages
                /\ pc' = "idle"
    /\ results' = <<>>
    /\ context_text' = <<>>
    /\ sources' = <<>>
    /\ bot_reply' = <<>>
    /\ calls' = <<>>
    /\ requests' = <<>>
    /\ shown_sources' = <<>>
    /\ failed' = FALSE
    /\ UNCHANGED history

(* retrieve_context, first remote call: a failure that is not raised *)
EmbedCallSwallowed ==
    /\ pc = "embed"
    /\ \E ok \in BOOLEAN :
        /\ calls' = Append(calls, [name |-> "embed", ok |-> ok])
        /\ pc' = "search"
    /\ UNCHANGED << messages, history, mode, user_query, results, context_text,
                    sources, bot_reply, requests, shown_sources, failed, before >>

(* retrieve_context, first remote call: openai.Embedding.create *)
EmbedCall ==
    /\ pc = "embed"
    /\ \E ok \in BOOLEAN :
        /\ calls' = Append(calls, [name |-> "embed", ok |-> ok])
        /\ pc' = IF ok THEN "search" ELSE "except"
    /\ UNCHANGED << messages, history, mode, user_query, results, context_text,
                    sources, bot_reply, requests, shown_sources, failed, before >>

(* retrieve_context, second remote call and the collection loop *)
SearchCall ==
    /\ pc = "search"
    /\ \/ /\ calls' = Append(calls, [name |-> "search", ok |-> FALSE])
          /\ pc' = "except"
          /\ UNCHANGED << results, context_text, sources >>
       \/ \E rs \in ResultLists :
          /\ calls' = Append(calls, [name |-> "search", ok |-> TRUE])
          /\ results' = rs
          /\ context_text' = RetrieveReturn(rs).context_text
          /\ sources' = RetrieveReturn(rs).sources
          /\ pc' = "guardrail"
    /\ UNCHANGED << messages, history, mode, user_query, bot_reply, requests,
                    shown_sources, failed, before >>

(* the guardrail left out: the chat completion is always asked *)
GuardrailMissing ==
    /\ pc = "guardrail"
    /\ pc' = "complete"
    /\ UNCHANGED << messages, history, mode, user_query, results, context_text,
                    sources, bot_reply, calls, requests, shown_sources, failed, before >>

(* the guardrail with its test inverted *)
GuardrailInverted ==
    /\ pc = "guardrail"
    /\ IF Truthy(Strip(context_text))
       THEN /\ bot_reply' = FALLBACK_REPLY
            /\ pc' = "render"
       ELSE /\ bot_reply' = bot_reply
            /\ pc' = "complete"
    /\ UNCHANGED << messages, history, mode, user_query, results, context_text,
                    sources, calls, requests, shown_sources, failed, before >>

(* Guardrail: no context found *)
Guardrail ==
    /\ pc = "guardrail"
    /\ IF ~Truthy(Strip(context_text))
       THEN /\ bot_reply' = FALLBACK_REPLY
            /\ pc' = "render"
       ELSE /\ bot_reply' = bot_reply
            /\ pc' = "complete"
    /\ UNCHANGED << messages, history, mode, user_query, results, context_text,
                    sources, calls, requests, shown_sources, failed, before >>

(* answer_with_context(user_query, context_text, temperature=0, max_tokens=600) *)
AnswerWithContext ==
    /\ pc = "complete"
    /\ requests' = Append(requests,
           GroundedRequest(user_query, context_text, RAG_TEMPERATURE_TENTHS, MAX_TOKENS))
    /\ \/ /\ calls' = Append(calls, [name |-> "complete", ok |-> FALSE])
          /\ pc' = "except"
          /\ UNCHANGED bot_reply
       \/ \E resp \in Replies :
          /\ calls' = Append(calls, [name |-> "complete", ok |-> TRUE])
          /\ bot_reply' = resp
          /\ pc' = "render"
    /\ UNCHANGED << messages, history, mode, user_query, results, context_text,
                    sources, shown_sources, failed, before >>

(* st.markdown(bot_reply) and the "Sources" expander of the RAG branch *)
RenderReply ==
    /\ pc = "render"
    /\ shown_sources' = IF Truthy(sources) THEN sources ELSE <<>>
    /\ pc' = "save"
    /\ UNCHANGED << messages, history, mode, user_query, results, context_text,
                    sources, bot_reply, calls, requests, failed, before >>

(* General GPT-3.5 Chat (no RAG) *)
GeneralChat ==
    /\ pc = "general"
    /\ requests' = Append(requests, GeneralRequest(user_query))
    /\ \/ /\ calls' = Append(calls, [name |-> "complete", ok |-> FALSE])
          /\ pc' = "except"
          /\ UNCHANGED bot_reply
       \/ \E resp \in Replies :
          /\ calls' = Append(calls, [name |-> "complete", ok |-> TRUE])
          /\ bot_reply' = resp
          /\ pc' = "save"
    /\ UNCHANGED << messages, history, mode, user_query, results, context_text,
                    sources, shown_sources, failed, before >>

(* except Exception as e *)
ExceptBranch ==
    /\ pc = "except"
    /\ failed' = TRUE
    /\ bot_reply' = ERROR_REPLY
    /\ pc' = "save"
    /\ UNCHANGED << messages, history, mode, user_query, results, context_text,
                    sources, calls, requests, shown_sources, before >>

(* a save that records nothing for a failed turn *)
SaveReplySkippingErrors ==
    /\ pc = "save"
    /\ messages' = IF failed THEN messages
                   ELSE Append(messages, [role |-> "assistant", content |-> bot_reply])
    /\ pc' = "idle"
    /\ UNCHANGED << history, mode, user_query, results, context_text, sources,
                    bot_reply, calls, requests, shown_sources, failed, before >>

(* Save bot reply to history *)
SaveReply ==
    /\ pc = "save"
    /\ messages' = Append(messages, [role |-> "assistant", content |-> bot_reply])
    /\ pc' = "idle"
    /\ UNCHANGED << history, mode, user_query, results, context_text, sources,
                    bot_reply, calls, requests, shown_sources, failed, before >>

Next ==
    \/ ChatInput
    \/ EmbedCall
    \/ SearchCall
    \/ Guardrail
    \/ AnswerWithContext
    \/ RenderReply
    \/ GeneralChat
    \/ ExceptBranch
    \/ SaveReply

Spec == Init /\ [][Next]_vars

-----------------------------------------------------------------------------
(* Vocabulary of the properties *)

CallNames == [i \in 1..Len(calls) |-> calls[i].name]

Issued(name) == Cardinality({ i \in 1..Len(calls) : calls[i].name = name })

SearchSucceeded ==
    \E i \in 1..Len(calls) : calls[i].name = "search" /\ calls[i].ok

AllCallsOk == \A i \in 1..Len(calls) : calls[i].ok

TurnOver == pc \in { "save", "idle" } /\ user_query # <<>>

IsPrefix(s, t) == Len(s) <= Len(t) /\ \A i \in 1..Len(s) : s[i] = t[i]

ContentOf(r) == IF "content" \in DOMAIN r THEN r.content ELSE <<>>

SourceOf(r) == IF "source" \in DOMAIN r THEN r.source ELSE <<>>

NoDocumentHasContent == \A i \in 1..Len(results) : ContentOf(results[i]) = <<>>

SomeDocumentHasContent == \E i \in 1..Len(results) : ContentOf(results[i]) # <<>>

SomeDocumentHasVisibleContent ==
    \E i \in 1..Len(results) :
        \E k \in 1..Len(ContentOf(results[i])) :
            ContentOf(results[i])[k] \notin { " ", "\n", "\t", "\r" }

LastN(s, n) == IF Len(s) <= n THEN s ELSE SubSeq(s, Len(s) - n + 1, Len(s))

RECURSIVE Flatten(_)
Flatten(ss) ==
    IF ss = <<>> THEN <<>>
    ELSE Flatten(SubSeq(ss, 1, Len(ss) - 1)) \o ss[Len(ss)]

(* the documents with non-empty content, in ranked order *)
KeptDocuments == SelectSeq(results, LAMBDA r : ContentOf(r) # <<>>)

(* their contents with a blank line put before every one but the first *)
KeptContentsSeparated ==
    [i \in 1..Len(KeptDocuments) |->
        IF i = 1 THEN ContentOf(KeptDocuments[1])
        ELSE << "\n", "\n" >> \o ContentOf(KeptDocuments[i])]

-----------------------------------------------------------------------------
(* C1: in RAG mode, when the vector search returned no document, or only   *)
(* documents whose content is empty or absent, the chat completion is      *)
(* never called in that turn and the reply of the turn, as rendered and as *)
(* saved, is the fixed no-context fallback text.                           *)
C1_EmptyRetrievalFallsBack ==
    (mode = RAG_MODE /\ SearchSucceeded /\ NoDocumentHasContent) =>
        /\ Issued("complete") = 0
        /\ requests = <<>>
        /\ pc \notin { "complete", "except" }
        /\ ~failed
        /\ pc \in { "render", "save", "idle" } => bot_reply = FALLBACK_REPLY
        /\ pc = "idle" =>
              messages[Len(messages)] = [role |-> "assistant", content |-> FALLBACK_REPLY]

C1_Witness ==
    /\ pc = "idle"
    /\ mode = RAG_MODE
    /\ SearchSucceeded
    /\ Len(results) = 2
    /\ NoDocumentHasContent
    /\ bot_reply = FALLBACK_REPLY

(* C2, as claimed: in RAG mode, when the search returned at least one      *)
(* document with non-empty content (whitespace-only content included) and  *)
(* no remote call failed, the finished turn issued exactly one chat        *)
(* completion and its reply is not the fallback text.                      *)
C2_AsClaimed ==
    (mode = RAG_MODE /\ TurnOver /\ SearchSucceeded /\ AllCallsOk /\ SomeDocumentHasContent) =>
        /\ Issued("complete") = 1
        /\ bot_reply # FALLBACK_REPLY

(* C2, amended: in RAG mode, when the search returned at least one         *)
(* document whose content holds a non-whitespace character and no remote   *)
(* call failed, the finished turn issued exactly one chat completion, and  *)
(* its reply is the text that call returned, not the fallback text.        *)
C2_VisibleContentIsAnswered ==
    (mode = RAG_MODE /\ TurnOver /\ SearchSucceeded /\ AllCallsOk /\ SomeDocumentHasVisibleContent) =>
        /\ Issued("complete") = 1
        /\ Len(requests) = 1
        /\ bot_reply # FALLBACK_REPLY
        /\ bot_reply \in Replies

C2_Witness ==
    /\ pc = "idle"
    /\ mode = RAG_MODE
    /\ AllCallsOk
    /\ Issued("complete") = 1
    /\ SomeDocumentHasVisibleContent
    /\ \E i \in 1..Len(results) : ContentOf(results[i]) = << " " >>
    /\ messages[Len(messages)].content \in Replies

(* C3, as claimed: whenever the guardrail fires (the context text is empty *)
(* after trimming whitespace), the sources that accompany the fallback     *)
(* reply are empty and no Sources entry is rendered.                       *)
C3_AsClaimed ==
    (mode = RAG_MODE /\ TurnOver /\ SearchSucceeded /\ Strip(context_text) = <<>>) =>
        /\ sources = <<>>
        /\ shown_sources = <<>>

(* C4, as claimed: after a turn in which a remote call failed, the message *)
(* list equals the message list before the query was submitted.            *)
C4_AsClaimed ==
    (pc = "idle" /\ failed) => messages = before

(* C5: within a RAG turn the remote calls are a prefix of embed, search,   *)
(* complete; every call but the last one succeeded, and a failed call is   *)
(* the last of the turn: the handler is then in its except branch or past  *)
(* it, so nothing is retried.                                              *)
C5_CallsAreAPrefix ==
    mode = RAG_MODE =>
        /\ IsPrefix(CallNames, << "embed", "search", "complete" >>)
        /\ \A i \in 1..(Len(calls) - 1) : calls[i].ok
        /\ (calls # <<>> /\ ~calls[Len(calls)].ok) => pc \in { "except", "save", "idle" }
        /\ Len(requests) = Issued("complete")

C5_Witness ==
    /\ pc = "idle"
    /\ mode = RAG_MODE
    /\ calls = << [name |-> "embed", ok |-> TRUE], [name |-> "search", ok |-> FALSE] >>
    /\ failed

(* C6, as claimed: the messages of a RAG chat completion are the system    *)
(* message, then the most recent min(6, n) of the n turns recorded before  *)
(* this query, oldest first, then the final user message.                  *)
C6_AsClaimed ==
    \A i \in 1..Len(requests) :
        mode = RAG_MODE =>
            requests[i].messages =
                << [role |-> "system", content |-> GROUNDING_SYS_MSG] >>
                \o LastN(before, 6)
                \o << [role |-> "user", content |-> UserPrompt(context_text, user_query)] >>

(* C7: once the search has returned, the sources are the source fields     *)
(* (empty text when absent) of exactly the documents with non-empty        *)
(* content, in ranked order with duplicates kept, and the context text is  *)
(* the contents of those documents joined by a blank line.                 *)
C7_SourcesFollowKeptDocuments ==
    SearchSucceeded =>
        /\ Len(sources) = Len(KeptDocuments)
        /\ \A i \in 1..Len(KeptDocuments) : sources[i] = SourceOf(KeptDocuments[i])
        /\ context_text = Flatten(KeptContentsSeparated)

C7_Witness ==
    /\ SearchSucceeded
    /\ Len(results) = 3
    /\ ContentOf(results[1]) # <<>>
    /\ ContentOf(results[2]) = <<>>
    /\ ContentOf(results[3]) # <<>>
    /\ sources = << << "s", "1" >>, << "s", "1" >> >>
    /\ context_text = << "b", " ", "\n", "\n", "a" >>

(* C8: every RAG chat completion request has exactly two messages; the     *)
(* first is the system grounding instruction and the last is a user        *)
(* message whose content is "Context:\n", the context text, "\n\n",        *)
(* "Question: " and the query, in that order and with nothing else.        *)
C8_FinalUserMessage ==
    \A i \in 1..Len(requests) :
        mode = RAG_MODE =>
            LET msgs == requests[i].messages
                last == msgs[Len(msgs)]
                c    == context_text
                q    == user_query
            IN  /\ msgs[1].role = "system"
                /\ msgs[1].content = GROUNDING_SYS_MSG
                /\ last.role = "user"
                /\ Len(last.content) = 9 + Len(c) + 12 + Len(q)
                /\ SubSeq(last.content, 1, 9) = << "C", "o", "n", "t", "e", "x", "t", ":", "\n" >>
                /\ SubSeq(last.content, 10, 9 + Len(c)) = c
                /\ SubSeq(last.content, 10 + Len(c), 21 + Len(c)) =
                       << "\n", "\n", "Q", "u", "e", "s", "t", "i", "o", "n", ":", " " >>
                /\ SubSeq(last.content, 22 + Len(c), Len(last.content)) = q

C8_Witness ==
    /\ mode = RAG_MODE
    /\ Len(requests) = 1
    /\ context_text = << "a", "\n", "\n", "b", " " >>
    /\ user_query = << " ", "p", "?" >>

(* C9: a turn of the general mode never calls the embedding or the search  *)
(* service and never takes the guardrail; once over it has issued exactly  *)
(* one chat completion, whose messages are the generic system prompt and   *)
(* the raw query, at temperature 0.3; every RAG chat completion is at      *)
(* temperature 0 with 600 max tokens.                                      *)
C9_ModesDiffer ==
    /\ mode = GENERAL_MODE =>
          /\ Issued("embed") = 0
          /\ Issued("search") = 0
          /\ pc \notin { "embed", "search", "guardrail", "complete", "render" }
          /\ bot_reply # FALLBACK_REPLY
          /\ TurnOver =>
                /\ Issued("complete") = 1
                /\ requests =
                      << [ messages    |-> << [role |-> "system", content |-> GENERAL_SYS_MSG],
                                              [role |-> "user", content |-> user_query] >>,
                           temperature |-> 3,
                           max_tokens  |-> 600 ] >>
    /\ mode = RAG_MODE =>
          \A i \in 1..Len(requests) :
              requests[i].temperature = 0 /\ requests[i].max_tokens = 600

C9_Witness ==
    /\ mode = GENERAL_MODE
    /\ pc = "idle"
    /\ Len(requests) = 1
    /\ bot_reply \in Replies
    /\ Len(before) = 2

(* C10: whenever no turn is in progress the message list has even length   *)
(* and alternates user, assistant, starting with a user turn; and no step  *)
(* of the program changes or removes an entry already in the list.         *)
C10_AlternatingAppendOnly ==
    /\ [](pc = "idle" =>
            /\ Len(messages) % 2 = 0
            /\ \A i \in 1..Len(messages) :
                  messages[i].role = IF i % 2 = 1 THEN "user" ELSE "assistant")
    /\ [][IsPrefix(messages, messages')]_vars

C10_Witness ==
    /\ pc = "idle"
    /\ Len(messages) = 4
    /\ messages[2].content = ERROR_REPLY
    /\ messages[4].content = FALLBACK_REPLY

=============================================================================
